---- MODULE Spec2Model ----
(***************************************************************************)
(* AutoSpareHub: cart, checkout (order placement) and product stock.       *)
(*                                                                         *)
(* The committed database state is shared by all request handlers.  Every  *)
(* request handler works in its own ORM session: rows it has loaded stay   *)
(* in the session (identity map) until the request ends, rows it has       *)
(* added or changed become visible to the others only at                   *)
(* db.session.commit().                                                    *)
(***************************************************************************)
EXTENDS Integers, FiniteSets, Sequences, TLC

\* ---------------------------------------------------------------- universe
Users == {"u1", "u2"}
Products == {"p1", "p2"}
Requests == {1, 2}
Addresses == {"a1", "a2"}
NoAddress == "none"

\* Largest stock quantity of a product.
MaxStock == 2
\* Number of requests the application serves in a run.
MaxRequests == 4

\* The statuses update_order_status accepts.
OrderStatuses ==
    {"pending", "confirmed", "packed", "shipped", "delivered", "cancelled"}

\* Address.user_id: the owner of an address row.
AddressOwner(a) == IF a = "a1" THEN "u1" ELSE "u2"

\* Product.stock_quantity of the products when the shop opens.
InitialStock(p) == IF p = "p1" THEN 1 ELSE MaxStock

\* What a handler's session holds: the quantity of each cart row it loaded
\* (0: no row), whether that row has since been deleted by another session
\* (its primary key is gone), the stock_quantity of each product it loaded,
\* and the id of the order it flushed.
NoSession ==
    [user |-> "none", address |-> NoAddress,
     lines |-> [p \in Products |-> 0],
     gone |-> [p \in Products |-> FALSE],
     stock |-> [p \in Products |-> 0], order_id |-> 0]

VARIABLES
    stock_quantity,   \* Product.stock_quantity, per product
    is_active,        \* Product.is_active, per product
    cart,             \* cart table: cart[u][p] is the quantity of the row
                      \* of (user, product), 0 when there is no row
    orders,           \* orders table (committed rows)
    order_items,      \* order_items table (committed rows)
    status_history,   \* order_status_history table, in insertion order
    next_order_id,    \* auto-increment of orders.id
    pc,               \* position of each request handler in checkout()
    sess,             \* what the handler's ORM session holds
    outcome,          \* how the last finished checkout ended
    stock_edited,     \* history: the admin has edited the product's stock
    served,           \* history: number of requests served so far
    mails,            \* the order emails the last step attempted
    \* pricing of a placement (amounts of one checkout)
    price,            \* Product.price in cents, per product
    discount,         \* Product.discount in percent, per product
    cart_items,       \* quantity of the cart row of each product (0: none)
    placed,           \* the checkout has computed and stored its amounts
    quote,            \* the amounts checkout() computes, exact
    order_amounts,    \* the Numeric(10, 2) columns of the orders row, cents
    item_amounts,     \* the Numeric(10, 2) columns of the order_items rows
    \* status updates of placed orders
    order_status,     \* Order.order_status, per order
    tracking_number,  \* Order.tracking_number, per order ("": NULL)
    history_rows,     \* order_status_history rows, in the order of their ids
    subscriptions,    \* push_subscriptions rows: the endpoints of each user
    utcnow,           \* datetime.utcnow()
    update,           \* each handler's update_order_status() in progress
    response,         \* the JSON response of the last finished update
    notifications,    \* the notifications the last step attempted
    calls,            \* history: number of update requests received
    \* cart rows and the cart routes, request by request
    cart_rows,        \* cart table: rows with id, user, product, quantity
    next_cart_id,     \* auto-increment of cart.id
    adding,           \* each handler's add_to_cart() in progress
    cart_response,    \* the last cart request and its JSON response
    cart_calls,       \* history: number of cart requests received
    \* addresses of the users
    address_rows,     \* addresses table: rows with id, user, is_default
    next_address_id,  \* auto-increment of addresses.id
    address_response, \* the last address request and how it ended
    address_calls,    \* history: number of address requests received
    \* order numbers
    order_numbers,    \* orders.order_number of the committed orders
    placement,        \* the last placement: its order number, how it ended
    \* products and the orders placed for them
    catalogue,        \* Product.name and Product.part_number, per product
    archive,          \* the committed orders with their order items
    archive_calls     \* history: number of requests received

\* The variables of the shop: cart, checkout, stock, orders.
shopVars ==
    <<stock_quantity, is_active, cart, orders, order_items, status_history,
      next_order_id, pc, sess, outcome, stock_edited, served, mails>>

\* The variables of the pricing of a placement.
pricingVars ==
    <<price, discount, cart_items, placed, quote, order_amounts, item_amounts>>

\* The variables of the order status updates.
statusVars ==
    <<order_status, tracking_number, history_rows, subscriptions, utcnow,
      update, response, notifications, calls>>

\* The variables of the cart routes.
cartVars ==
    <<cart_rows, next_cart_id, adding, cart_response, cart_calls>>

\* The variables of the address routes.
accountVars ==
    <<address_rows, next_address_id, address_response, address_calls>>

\* The variables of the order numbers.
numberVars == <<order_numbers, placement>>

\* The variables of the products and the orders kept of them.
snapshotVars == <<catalogue, archive, archive_calls>>

\* The variables outside the shop, the pricing and the status updates.
siteVars == <<cartVars, accountVars, numberVars, snapshotVars>>

vars == <<shopVars, pricingVars, statusVars, siteVars>>

\* ------------------------------------------------------------ pure helpers
\* Product.decrease_stock: the new in-memory stock_quantity.
DecreaseStock(stock, quantity) ==
    IF stock >= quantity THEN stock - quantity ELSE stock

\* Mutation of CartIsEmpty: the empty-cart test is dropped.
CartNeverEmpty(lines) == FALSE

\* checkout(): "if not cart_items".
CartIsEmpty(lines) == \A p \in Products : lines[p] = 0

\* Mutation of StockAvailable: the stock availability loop is dropped.
StockNotChecked(lines, stock) == TRUE

\* checkout(): the stock availability loop over the loaded cart items.
StockAvailable(lines, stock) ==
    \A p \in Products : lines[p] # 0 => ~(stock[p] < lines[p])

\* Mutation of AddressAccepted: any posted address id is taken.
AddressNotChecked(u, a) == TRUE

\* checkout(): the address must be one of the form's choices (the user's
\* own addresses) and pass the ownership test.
AddressAccepted(u, a) ==
    /\ a \in {b \in Addresses : AddressOwner(b) = u}
    /\ a \in Addresses /\ AddressOwner(a) = u

\* Mutation of StockQuantityValid: the field has no validators.
StockQuantityNotValidated(n) == TRUE

\* ProductForm.stock_quantity: DataRequired() (rejects 0) and
\* NumberRange(min=0).
StockQuantityValid(n) == n # 0 /\ n >= 0

LinesOf(r) == {p \in Products : sess[r].lines[p] # 0}

\* The sessions, other than r, that hold the cart row of (u, p).
Holders(r, u, p) ==
    {h \in Requests \ {r} : sess[h].user = u /\ sess[h].lines[p] # 0}

\* ------------------------------------------------------------------- Init
\* The shop when it opens: stocked products, no cart rows, no orders.
ShopInit ==
    /\ stock_quantity = [p \in Products |-> InitialStock(p)]
    /\ is_active = [p \in Products |-> TRUE]
    /\ cart = [u \in Users |-> [p \in Products |-> 0]]
    /\ orders = {}
    /\ order_items = {}
    /\ status_history = <<>>
    /\ next_order_id = 1
    /\ pc = [r \in Requests |-> "idle"]
    /\ sess = [r \in Requests |-> NoSession]
    /\ outcome = "none"
    /\ stock_edited = [p \in Products |-> FALSE]
    /\ served = 0
    /\ mails = {}

\* ------------------------------------------------------------ cart routes
\* A request reaches its route handler.
Serve ==
    /\ served < MaxRequests
    /\ served' = served + 1

\* add_to_cart(product_id) by user u with form quantity q.
AddToCart(u, p, q) ==
    /\ Serve
    /\ cart' =
         IF q < 1 \/ stock_quantity[p] < q
         THEN cart
         ELSE IF cart[u][p] # 0
         THEN IF stock_quantity[p] < cart[u][p] + q
              THEN cart
              ELSE [cart EXCEPT ![u][p] = @ + q]
         ELSE [cart EXCEPT ![u][p] = q]
    /\ outcome' = "none"
    /\ mails' = {}
    /\ UNCHANGED <<stock_quantity, is_active, orders, order_items,
                   status_history, next_order_id, pc, sess, stock_edited>>
    /\ UNCHANGED <<pricingVars, statusVars, siteVars>>

\* update_cart(item_id) by user u on the row of (owner, p) with quantity q.
UpdateCart(u, owner, p, q) ==
    /\ Serve
    /\ cart[owner][p] # 0
    /\ cart' =
         IF owner # u \/ q < 1 \/ stock_quantity[p] < q
         THEN cart
         ELSE [cart EXCEPT ![owner][p] = q]
    /\ outcome' = "none"
    /\ mails' = {}
    /\ UNCHANGED <<stock_quantity, is_active, orders, order_items,
                   status_history, next_order_id, pc, sess, stock_edited>>
    /\ UNCHANGED <<pricingVars, statusVars, siteVars>>

\* remove_from_cart(item_id) by user u on the row of (owner, p).
RemoveFromCart(u, owner, p) ==
    /\ Serve
    /\ cart[owner][p] # 0
    /\ IF owner # u
       THEN UNCHANGED <<cart, sess>>
       ELSE /\ cart' = [cart EXCEPT ![owner][p] = 0]
            /\ sess' = [h \in Requests |->
                          IF h \in Holders(0, owner, p)
                          THEN [sess[h] EXCEPT !.gone[p] = TRUE]
                          ELSE sess[h]]
    /\ outcome' = "none"
    /\ mails' = {}
    /\ UNCHANGED <<stock_quantity, is_active, orders, order_items,
                   status_history, next_order_id, pc, stock_edited>>
    /\ UNCHANGED <<pricingVars, statusVars, siteVars>>

\* --------------------------------------------------------------- checkout
\* The first free request handler serves the next checkout.
FreeHandler(r) ==
    /\ pc[r] = "idle"
    /\ \A h \in Requests : pc[h] = "idle" => ~(h < r)

\* The rows a checkout by user u loads: the user's cart rows and, through
\* item.product, the products of these rows.
Loaded(u, a) ==
    [user |-> u, address |-> a, lines |-> cart[u],
     gone |-> [p \in Products |-> FALSE],
     stock |-> [p \in Products |->
                  IF cart[u][p] # 0 THEN stock_quantity[p] ELSE 0],
     order_id |-> 0]

\* The early returns of checkout() on the loaded rows ("" when none).
Rejection(s) ==
    IF CartIsEmpty(s.lines) THEN "empty_cart"
    ELSE IF ~StockAvailable(s.lines, s.stock) THEN "insufficient_stock"
    ELSE IF ~AddressAccepted(s.user, s.address) THEN "invalid_address"
    ELSE ""

\* Mutation of FlushOrder: the header is committed where it is flushed.
FlushOrderCommits(r, s) ==
    /\ sess' = [sess EXCEPT ![r] = [s EXCEPT !.order_id = next_order_id]]
    /\ next_order_id' = next_order_id + 1
    /\ pc' = [pc EXCEPT ![r] = "flushed"]
    /\ outcome' = "none"
    /\ mails' = {}
    /\ orders' = orders \cup
         {[id |-> next_order_id, user_id |-> s.user,
           address_id |-> s.address, order_status |-> "pending"]}

\* db.session.add(order); db.session.flush(): the order header is inserted
\* in the handler's open transaction and gets its id.
FlushOrder(r, s) ==
    /\ sess' = [sess EXCEPT ![r] = [s EXCEPT !.order_id = next_order_id]]
    /\ next_order_id' = next_order_id + 1
    /\ pc' = [pc EXCEPT ![r] = "flushed"]
    /\ outcome' = "none"
    /\ mails' = {}
    /\ UNCHANGED orders

\* checkout() by user u posting address a, up to the flush of the order
\* header: the loads, the checks on the loaded rows, the order header.
CheckoutBegin(r, u, a) ==
    /\ Serve
    /\ FreeHandler(r)
    /\ IF Rejection(Loaded(u, a)) # ""
       THEN /\ outcome' = Rejection(Loaded(u, a))
            /\ mails' = {}
            /\ UNCHANGED <<orders, next_order_id, pc, sess>>
       ELSE FlushOrder(r, Loaded(u, a))
    /\ UNCHANGED <<stock_quantity, is_active, cart, order_items,
                   status_history, stock_edited>>
    /\ UNCHANGED <<pricingVars, statusVars, siteVars>>

\* Mutation of OrderRow: the order is created already confirmed.
OrderRowConfirmed(r) ==
    [id |-> sess[r].order_id, user_id |-> sess[r].user,
     address_id |-> sess[r].address, order_status |-> "confirmed"]

\* The order header as committed.
OrderRow(r) ==
    [id |-> sess[r].order_id, user_id |-> sess[r].user,
     address_id |-> sess[r].address, order_status |-> "pending"]

\* The in-memory stock_quantity of product p after the item loop.
NewStock(r, p) == DecreaseStock(sess[r].stock[p], sess[r].lines[p])

\* send_order_confirmation_email() and send_admin_order_notification():
\* whatever goes wrong is caught and logged, the function returns whether
\* the mail went out.
SendOrderEmail(kind, order_id, transport_ok) ==
    [kind |-> kind, order_id |-> order_id, ok |-> transport_ok]

\* checkout(): order items, decrease_stock, cart deletes, initial history,
\* db.session.commit(); then the confirmation email to the customer and
\* the notification email to the admin, and the redirect to the order
\* confirmation page.
CheckoutCommit(r, customer_ok, admin_ok) ==
    /\ pc[r] = "flushed"
    /\ orders' = orders \cup {OrderRow(r)}
    /\ order_items' = order_items \cup
         {[order_id |-> sess[r].order_id, product_id |-> p,
           quantity |-> sess[r].lines[p]] : p \in LinesOf(r)}
    /\ stock_quantity' =
         [p \in Products |->
            IF p \in LinesOf(r) /\ NewStock(r, p) # sess[r].stock[p]
            THEN NewStock(r, p)
            ELSE stock_quantity[p]]
    /\ cart' = [cart EXCEPT ![sess[r].user] =
                  [p \in Products |->
                     IF p \in LinesOf(r) /\ ~sess[r].gone[p]
                     THEN 0 ELSE @[p]]]
    /\ status_history' =
         Append(status_history,
                [order_id |-> sess[r].order_id, status |-> "pending"])
    /\ pc' = [pc EXCEPT ![r] = "idle"]
    /\ sess' = [h \in Requests |->
                  IF h = r THEN NoSession
                  ELSE [sess[h] EXCEPT !.gone =
                          [p \in Products |->
                             \/ @[p]
                             \/ /\ h \in Holders(r, sess[r].user, p)
                                /\ p \in LinesOf(r)
                                /\ ~sess[r].gone[p]]]]
    /\ outcome' = "ok"
    /\ mails' = {SendOrderEmail("confirmation", sess[r].order_id, customer_ok),
                 SendOrderEmail("admin", sess[r].order_id, admin_ok)}
    /\ UNCHANGED <<is_active, next_order_id, stock_edited, served>>
    /\ UNCHANGED <<pricingVars, statusVars, siteVars>>

\* Mutation of CheckoutFail: the confirmation email is sent before the
\* commit, so it is out when the placement is rolled back.
CheckoutFailNotifies(r) ==
    /\ pc[r] = "flushed"
    /\ pc' = [pc EXCEPT ![r] = "idle"]
    /\ sess' = [sess EXCEPT ![r] = NoSession]
    /\ outcome' = "error"
    /\ mails' = {SendOrderEmail("confirmation", sess[r].order_id, TRUE)}
    /\ UNCHANGED <<stock_quantity, is_active, cart, orders, order_items,
                   status_history, next_order_id, stock_edited, served>>
    /\ UNCHANGED <<pricingVars, statusVars, siteVars>>

\* An exception between flush and commit (a database error, a duplicate
\* order number): the 500 handler rolls the session back.
CheckoutFail(r) ==
    /\ pc[r] = "flushed"
    /\ pc' = [pc EXCEPT ![r] = "idle"]
    /\ sess' = [sess EXCEPT ![r] = NoSession]
    /\ outcome' = "error"
    /\ mails' = {}
    /\ UNCHANGED <<stock_quantity, is_active, cart, orders, order_items,
                   status_history, next_order_id, stock_edited, served>>
    /\ UNCHANGED <<pricingVars, statusVars, siteVars>>

\* ----------------------------------------------------------- admin routes
\* edit_product(product_id) with form stock quantity n and active flag.
EditProduct(p, n, act) ==
    /\ Serve
    /\ IF StockQuantityValid(n)
       THEN /\ stock_quantity' = [stock_quantity EXCEPT ![p] = n]
            /\ is_active' = [is_active EXCEPT ![p] = act]
            /\ stock_edited' = [stock_edited EXCEPT ![p] = TRUE]
       ELSE UNCHANGED <<stock_quantity, is_active, stock_edited>>
    /\ outcome' = "none"
    /\ mails' = {}
    /\ UNCHANGED <<cart, orders, order_items, status_history,
                   next_order_id, pc, sess>>
    /\ UNCHANGED <<pricingVars, statusVars, siteVars>>

\* delete_product(product_id): soft delete.
DeleteProduct(p) ==
    /\ Serve
    /\ is_active' = [is_active EXCEPT ![p] = FALSE]
    /\ outcome' = "none"
    /\ mails' = {}
    /\ UNCHANGED <<stock_quantity, cart, orders, order_items,
                   status_history, next_order_id, pc, sess, stock_edited>>
    /\ UNCHANGED <<pricingVars, statusVars, siteVars>>

\* Mutation of UpdateOrderStatus: the order's latest history row is
\* overwritten instead of a new one being added.
UpdateOrderStatusRewrites(o, s) ==
    /\ Serve
    /\ o \in orders
    /\ IF s \notin OrderStatuses
       THEN UNCHANGED <<orders, status_history>>
       ELSE /\ orders' = (orders \ {o}) \cup {[o EXCEPT !.order_status = s]}
            /\ status_history' =
                 LET last == CHOOSE k \in 1..Len(status_history) :
                                /\ status_history[k].order_id = o.id
                                /\ \A j \in (k + 1)..Len(status_history) :
                                      status_history[j].order_id # o.id
                 IN [status_history EXCEPT ![last].status = s]
    /\ outcome' = "none"
    /\ mails' = {}
    /\ UNCHANGED <<stock_quantity, is_active, cart, order_items,
                   next_order_id, pc, sess, stock_edited>>
    /\ UNCHANGED <<pricingVars, statusVars, siteVars>>

\* update_order_status(order_id) with form status s: the status check, the
\* new order_status and its history row, db.session.commit().
UpdateOrderStatus(o, s) ==
    /\ Serve
    /\ o \in orders
    /\ IF s \notin OrderStatuses
       THEN UNCHANGED <<orders, status_history>>
       ELSE /\ orders' = (orders \ {o}) \cup {[o EXCEPT !.order_status = s]}
            /\ status_history' =
                 Append(status_history, [order_id |-> o.id, status |-> s])
    /\ outcome' = "none"
    /\ mails' = {}
    /\ UNCHANGED <<stock_quantity, is_active, cart, order_items,
                   next_order_id, pc, sess, stock_edited>>
    /\ UNCHANGED <<pricingVars, statusVars, siteVars>>

\* ------------------------------------------------------ pricing of orders
\* Amounts are integers: prices and stored amounts in cents, the amounts
\* checkout() computes (Decimal arithmetic, which is exact here) in the
\* finer units named below.

\* Config.TAX_RATE, in percent.
TaxRatePercent == 18
\* Config.SHIPPING_RATE, in cents.
ShippingRateCents == 5000

\* Product.price values (cents) and Product.discount values (percent).
Prices == {10, 1010, 10000}
Discounts == {0, 5, 10}

\* Units per cent of a discounted price, of a line total and of the
\* subtotal: price * (1 - discount / 100) has four decimal places.
PriceUnits == 100
\* Units per cent of the tax amount and of the total: the subtotal times
\* the two-place tax rate has six decimal places.
TaxUnits == 100 * PriceUnits

\* Mutation of DiscountedPrice: the discount is not applied.
DiscountIgnored(p_price, p_discount) == p_price * PriceUnits

\* Product.discounted_price, in PriceUnits (exact: PriceUnits is 100).
DiscountedPrice(p_price, p_discount) ==
    IF p_discount # 0
    THEN (p_price * PriceUnits * (100 - p_discount)) \div 100
    ELSE p_price * PriceUnits

\* checkout(): "subtotal += item.product.discounted_price * item.quantity"
\* over the cart items ps, in PriceUnits.
RECURSIVE Subtotal(_)
Subtotal(ps) ==
    IF ps = {} THEN 0
    ELSE LET p == CHOOSE x \in ps : TRUE
         IN Subtotal(ps \ {p})
              + DiscountedPrice(price[p], discount[p]) * cart_items[p]

\* checkout(): the amounts of the order, exact; subtotal in PriceUnits,
\* tax_amount, shipping_amount and total_amount in TaxUnits.
Totals(ps) ==
    LET subtotal == Subtotal(ps)
        \* subtotal * (TaxRatePercent / 100), in TaxUnits
        tax_amount == subtotal * TaxRatePercent
        shipping_amount == ShippingRateCents * TaxUnits
    IN [subtotal |-> subtotal,
        tax_amount |-> tax_amount,
        shipping_amount |-> shipping_amount,
        total_amount |-> subtotal * 100 + tax_amount + shipping_amount]

\* A Numeric(10, 2) column: the value written is rounded to cents by the
\* database (half away from zero; amounts are never negative).
Stored(amount, units) == (amount + units \div 2) \div units

NoAmounts ==
    [subtotal |-> 0, tax_amount |-> 0, shipping_amount |-> 0,
     total_amount |-> 0]
NoItemAmounts == [p \in Products |-> [unit_price |-> 0, total_price |-> 0]]

\* No checkout is being priced: one catalogue, an empty cart.
PricingIdle ==
    /\ price = [p \in Products |-> 10000]
    /\ discount = [p \in Products |-> 0]
    /\ cart_items = [p \in Products |-> 0]
    /\ placed = FALSE
    /\ quote = NoAmounts
    /\ order_amounts = NoAmounts
    /\ item_amounts = NoItemAmounts

\* checkout(): the totals, the order header and the order items with their
\* amounts, db.session.commit().
PlaceOrderAmounts ==
    /\ ~placed
    /\ placed' = TRUE
    /\ LET ps == {p \in Products : cart_items[p] # 0}
           t == Totals(ps)
       IN /\ quote' = t
          /\ order_amounts' =
               [subtotal |-> Stored(t.subtotal, PriceUnits),
                tax_amount |-> Stored(t.tax_amount, TaxUnits),
                shipping_amount |-> Stored(t.shipping_amount, TaxUnits),
                total_amount |-> Stored(t.total_amount, TaxUnits)]
          /\ item_amounts' =
               [p \in Products |->
                  IF p \in ps
                  THEN [unit_price |->
                          Stored(DiscountedPrice(price[p], discount[p]),
                                 PriceUnits),
                        total_price |->
                          Stored(DiscountedPrice(price[p], discount[p])
                                   * cart_items[p], PriceUnits)]
                  ELSE [unit_price |-> 0, total_price |-> 0]]
    /\ UNCHANGED <<price, discount, cart_items>>
    /\ UNCHANGED <<shopVars, statusVars, siteVars>>

\* ---------------------------------------------------------- order status
\* The placed orders whose status the admin updates, and their users.
PlacedOrders == {1, 2}
OrderUser(o) == IF o = 1 THEN "u1" ELSE "u2"
\* The orders the admin's update requests of a run are for.
UpdatedOrders == {1}

\* Number of update requests the application receives in a run.
MaxUpdates == 2
\* Latest reading of the clock.
MaxTime == 1

\* request.form: notes and tracking_number ("": empty or absent), as the
\* admin fills them in.
FormFields ==
    {[notes |-> "", tracking_number |-> ""],
     [notes |-> "via carrier X", tracking_number |-> "TRK1"]}
\* The endpoints of push subscriptions, and the subscription rows in the
\* order of their ids, which is the order the query returns them in.
Endpoints == {"e1", "e2"}
EndpointsById == <<"e1", "e2">>
\* What happens to a web push: it is accepted; webpush() raises
\* WebPushException with a 410 response (gone) or with another response
\* (failed); webpush() raises an exception that is not a WebPushException
\* (raised: the connection fails, the subscription keys do not decode).
PushOutcomes == {"accepted", "gone", "failed", "raised"}

NoUpdate ==
    [at |-> "idle", order |-> 0, loaded_status |-> "", loaded_tracking |-> "",
     status |-> "", notes |-> "", tracking_number |-> "", call |-> 0]

\* The orders as checkout() committed them, at time 0: status pending, no
\* tracking number, the initial history row.  User u1 has a push
\* subscription, user u2 none.
StatusIdle ==
    /\ order_status = [o \in PlacedOrders |-> "pending"]
    /\ tracking_number = [o \in PlacedOrders |-> ""]
    /\ history_rows =
         [i \in 1..Cardinality(PlacedOrders) |->
            [order_id |-> i, status |-> "pending",
             notes |-> "Order placed successfully", created_at |-> 0,
             call |-> 0]]
    /\ subscriptions = [u \in Users |-> IF u = "u1" THEN {"e1"} ELSE {}]
    /\ utcnow = 0
    /\ update = [h \in Requests |-> NoUpdate]
    /\ response = "none"
    /\ notifications = {}
    /\ calls = 0

\* Mutation of StatusKnown: any posted status is taken.
StatusNotChecked(s) == TRUE

\* update_order_status(): "new_status not in [...]" is false.
StatusKnown(s) == s \in OrderStatuses

\* The first free request handler serves the next update request.
FreeUpdater(h) ==
    /\ update[h].at = "idle"
    /\ \A g \in Requests : update[g].at = "idle" => ~(g < h)

\* Mutation of StatusBegin: only forward transitions are accepted, in the
\* lifecycle pending, confirmed, packed, shipped, delivered, with
\* cancelled after all of them.
StatusBeginForwardOnly(h, o, s, n, t) ==
    LET Rank(x) ==
          CASE x = "pending" -> 1 [] x = "confirmed" -> 2 [] x = "packed" -> 3
            [] x = "shipped" -> 4 [] x = "delivered" -> 5 [] OTHER -> 6
    IN
    /\ calls < MaxUpdates
    /\ calls' = calls + 1
    /\ FreeUpdater(h)
    /\ IF ~StatusKnown(s) \/ Rank(s) <= Rank(order_status[o])
       THEN /\ response' = "invalid"
            /\ UNCHANGED update
       ELSE /\ response' = "none"
            /\ update' = [update EXCEPT ![h] =
                 [at |-> "commit", order |-> o,
                  loaded_status |-> order_status[o],
                  loaded_tracking |-> tracking_number[o],
                  status |-> s, notes |-> n, tracking_number |-> t,
                  call |-> calls + 1]]
    /\ notifications' = {}
    /\ UNCHANGED <<order_status, tracking_number, history_rows,
                   subscriptions, utcnow>>
    /\ UNCHANGED <<shopVars, pricingVars, siteVars>>

\* update_order_status(order_id) with form status s, notes n and tracking
\* number t, up to db.session.commit(): the order is loaded, the status is
\* checked, the new values are set on the loaded order and the history row
\* is added to the session.
StatusBegin(h, o, s, n, t) ==
    /\ calls < MaxUpdates
    /\ calls' = calls + 1
    /\ FreeUpdater(h)
    /\ IF ~StatusKnown(s)
       THEN /\ response' = "invalid"
            /\ UNCHANGED update
       ELSE /\ response' = "none"
            /\ update' = [update EXCEPT ![h] =
                 [at |-> "commit", order |-> o,
                  loaded_status |-> order_status[o],
                  loaded_tracking |-> tracking_number[o],
                  status |-> s, notes |-> n, tracking_number |-> t,
                  call |-> calls + 1]]
    /\ notifications' = {}
    /\ UNCHANGED <<order_status, tracking_number, history_rows,
                   subscriptions, utcnow>>
    /\ UNCHANGED <<shopVars, pricingVars, siteVars>>

\* send_order_status_email(): Message is not imported in routes/admin.py,
\* so building the message raises NameError inside the try block, whatever
\* the mail transport would do; the function logs and returns False.
SendOrderStatusEmail(transport_ok) == FALSE

\* send_push_notification(): the loop over the subscriptions todo, with
\* the outcome of the web push to each endpoint.  A WebPushException is
\* caught inside the loop, which goes on; any other exception leaves the
\* loop.
RECURSIVE PushLoop(_, _, _)
PushLoop(todo, outcomes, done) ==
    IF todo = <<>> THEN done
    ELSE LET e == Head(todo)
             sent == [done EXCEPT !.attempted = @ \cup {e}]
         IN CASE outcomes[e] = "accepted" ->
                   PushLoop(Tail(todo), outcomes,
                            [sent EXCEPT !.success_count = @ + 1])
              [] outcomes[e] = "gone" ->
                   PushLoop(Tail(todo), outcomes,
                            [sent EXCEPT !.deleted = @ \cup {e}])
              [] outcomes[e] = "failed" ->
                   PushLoop(Tail(todo), outcomes, sent)
              [] OTHER -> [sent EXCEPT !.raised = TRUE]

\* send_push_notification() over the subscriptions subs of the user (the
\* VAPID settings of Config are not empty): the value returned, the
\* subscriptions left in the table and the subscriptions a push was sent
\* to.  Subscriptions refused with 410 are deleted in the session; the
\* deletes are committed only when the loop ends with some push accepted,
\* otherwise they are dropped with the session when the request ends.  An
\* exception that leaves the loop is caught by the outer handler, which
\* returns False.
SendPushNotification(subs, outcomes) ==
    LET loop == PushLoop(SelectSeq(EndpointsById, LAMBDA e : e \in subs),
                         outcomes,
                         [attempted |-> {}, success_count |-> 0,
                          deleted |-> {}, raised |-> FALSE])
    IN IF subs = {}
       THEN [result |-> FALSE, left |-> subs, attempted |-> {}]
       ELSE IF loop.raised
       THEN [result |-> FALSE, left |-> subs, attempted |-> loop.attempted]
       ELSE IF loop.success_count > 0
       THEN [result |-> TRUE, left |-> subs \ loop.deleted,
             attempted |-> loop.attempted]
       ELSE [result |-> FALSE, left |-> subs, attempted |-> loop.attempted]

\* Mutation of StatusCommit: the notifications are sent inside the
\* transaction, and the update is rolled back when the push fails.
StatusCommitNeedsPush(h, transport_ok, outcomes) ==
    LET u == update[h]
        push == SendPushNotification(subscriptions[OrderUser(u.order)],
                                     outcomes)
    IN /\ u.at = "commit"
       /\ order_status' =
            IF push.result /\ u.status # u.loaded_status
            THEN [order_status EXCEPT ![u.order] = u.status]
            ELSE order_status
       /\ tracking_number' =
            IF /\ push.result
               /\ u.tracking_number # ""
               /\ u.tracking_number # u.loaded_tracking
            THEN [tracking_number EXCEPT ![u.order] = u.tracking_number]
            ELSE tracking_number
       /\ history_rows' =
            IF push.result
            THEN Append(history_rows,
                        [order_id |-> u.order, status |-> u.status,
                         notes |-> u.notes, created_at |-> utcnow,
                         call |-> u.call])
            ELSE history_rows
       /\ notifications' =
            {[kind |-> "email", ok |-> SendOrderStatusEmail(transport_ok)],
             [kind |-> "push", ok |-> push.result]}
       /\ subscriptions' =
            [subscriptions EXCEPT ![OrderUser(u.order)] = push.left]
       /\ response' = IF push.result THEN "success" ELSE "error"
       /\ update' = [update EXCEPT ![h] = NoUpdate]
       /\ UNCHANGED <<utcnow, calls>>
       /\ UNCHANGED <<shopVars, pricingVars, siteVars>>

\* The rest of update_order_status(): db.session.commit() (the UPDATE of
\* the order's changed columns, the INSERT of the history row with
\* created_at = datetime.utcnow()), then the status email and the push
\* notification, then the success response.  An attribute set to the
\* value the order was loaded with is unchanged and is not written.
StatusCommit(h, transport_ok, outcomes) ==
    LET u == update[h]
        push == SendPushNotification(subscriptions[OrderUser(u.order)],
                                     outcomes)
    IN /\ u.at = "commit"
       /\ order_status' =
            IF u.status # u.loaded_status
            THEN [order_status EXCEPT ![u.order] = u.status]
            ELSE order_status
       /\ tracking_number' =
            IF u.tracking_number # "" /\ u.tracking_number # u.loaded_tracking
            THEN [tracking_number EXCEPT ![u.order] = u.tracking_number]
            ELSE tracking_number
       /\ history_rows' =
            Append(history_rows,
                   [order_id |-> u.order, status |-> u.status,
                    notes |-> u.notes, created_at |-> utcnow,
                    call |-> u.call])
       /\ notifications' =
            {[kind |-> "email", ok |-> SendOrderStatusEmail(transport_ok)],
             [kind |-> "push", ok |-> push.result]}
       /\ subscriptions' =
            [subscriptions EXCEPT ![OrderUser(u.order)] = push.left]
       /\ response' = "success"
       /\ update' = [update EXCEPT ![h] = NoUpdate]
       /\ UNCHANGED <<utcnow, calls>>
       /\ UNCHANGED <<shopVars, pricingVars, siteVars>>

\* Time passes.
Tick ==
    /\ utcnow < MaxTime
    /\ utcnow' = utcnow + 1
    /\ UNCHANGED <<order_status, tracking_number, history_rows,
                   subscriptions, update, response, notifications, calls>>
    /\ UNCHANGED <<shopVars, pricingVars, siteVars>>

\* ------------------------------------------------------ push notifications
\* subscribe() by user u with the endpoint e of the browser's subscription.
Subscribe(u, e) ==
    /\ IF e \in subscriptions[u]
       THEN /\ response' = "already_subscribed"
            /\ UNCHANGED subscriptions
       ELSE /\ response' = "subscribed"
            /\ subscriptions' = [subscriptions EXCEPT ![u] = @ \cup {e}]
    /\ notifications' = {}
    /\ UNCHANGED <<order_status, tracking_number, history_rows, utcnow,
                   update, calls>>
    /\ UNCHANGED <<shopVars, pricingVars, siteVars>>

\* unsubscribe() by user u with endpoint e.
Unsubscribe(u, e) ==
    /\ subscriptions' = [subscriptions EXCEPT ![u] = @ \ {e}]
    /\ response' = "unsubscribed"
    /\ notifications' = {}
    /\ UNCHANGED <<order_status, tracking_number, history_rows, utcnow,
                   update, calls>>
    /\ UNCHANGED <<shopVars, pricingVars, siteVars>>

\* send_notification() by an admin for user u: the fan-out to the user's
\* subscriptions and the JSON response.  The pushes of the step are kept
\* with their outcome and whether webpush() was called for them.
SendNotification(u, outcomes) ==
    LET push == SendPushNotification(subscriptions[u], outcomes)
    IN /\ subscriptions' = [subscriptions EXCEPT ![u] = push.left]
       /\ response' = IF push.result THEN "sent" ELSE "not_sent"
       /\ notifications' =
            {[kind |-> "push", user |-> u, endpoint |-> e,
              outcome |-> outcomes[e], sent |-> e \in push.attempted] :
               e \in subscriptions[u]}
       /\ UNCHANGED <<order_status, tracking_number, history_rows, utcnow,
                      update, calls>>
       /\ UNCHANGED <<shopVars, pricingVars, siteVars>>

\* Order.get_status_timeline(): the history rows of the order, as the
\* relationship loads them, sorted by timestamp with sorted(), which is
\* stable.
RowsOfOrder(o) == SelectSeq(history_rows, LAMBDA r : r.order_id = o)

RECURSIVE Sorted(_)
Sorted(rows) ==
    IF Len(rows) <= 1 THEN rows
    ELSE LET front == Sorted(SubSeq(rows, 1, Len(rows) - 1))
             last == rows[Len(rows)]
             keep == SelectSeq(front,
                               LAMBDA r : r.created_at <= last.created_at)
             rest == SelectSeq(front,
                               LAMBDA r : r.created_at > last.created_at)
         IN keep \o <<last>> \o rest

StatusTimeline(o) == Sorted(RowsOfOrder(o))

\* ------------------------------------------- cart rows, request by request
\* Number of cart requests the application receives in a run.
MaxCartRequests == 3

NoAdd ==
    [at |-> "idle", user |-> "none", product |-> "none", quantity |-> 0,
     row |-> 0, new_quantity |-> 0]

\* A cart request: the route, the user who sent it, the owner of the cart
\* row it is for, the product, the quantity of the form, and how it ended
\* (rejected, pending for an add that waits for its commit, ok, error).
CartRequest(route, u, owner, p, q, result) ==
    [route |-> route, user |-> u, owner |-> owner, product |-> p,
     quantity |-> q, result |-> result]

\* No cart rows, no cart request.
CartIdle ==
    /\ cart_rows = {}
    /\ next_cart_id = 1
    /\ adding = [h \in Requests |-> NoAdd]
    /\ cart_response = CartRequest("none", "none", "none", "none", 0, "none")
    /\ cart_calls = 0

\* Cart.query.filter_by(user_id=..., product_id=...): the rows found.
CartRowsOf(u, p) ==
    {row \in cart_rows : row.user_id = u /\ row.product_id = p}

\* The first free request handler serves the next add request.
FreeAdder(h) ==
    /\ adding[h].at = "idle"
    /\ \A g \in Requests : adding[g].at = "idle" => ~(g < h)

\* Mutation of OwnsCartItem: the ownership of the cart row is not verified.
OwnershipNotVerified(u, row) == TRUE

\* update_cart(), remove_from_cart(): "cart_item.user_id !=
\* current_user.id" is false.
OwnsCartItem(u, row) == ~(row.user_id # u)

\* add_to_cart(product_id) by user u with form quantity q, up to
\* db.session.commit(): the quantity and stock checks, the load of the
\* user's cart row of the product, the new quantity set on the loaded row
\* or the new row added to the session.
CartAddBegin(h, u, p, q) ==
    /\ cart_calls < MaxCartRequests
    /\ cart_calls' = cart_calls + 1
    /\ FreeAdder(h)
    /\ IF q < 1 \/ stock_quantity[p] < q
       THEN /\ cart_response' = CartRequest("add", u, u, p, q, "rejected")
            /\ UNCHANGED adding
       ELSE IF CartRowsOf(u, p) # {}
       THEN LET cart_item == CHOOSE row \in CartRowsOf(u, p) : TRUE
                new_quantity == cart_item.quantity + q
            IN IF stock_quantity[p] < new_quantity
               THEN /\ cart_response' =
                         CartRequest("add", u, u, p, q, "rejected")
                    /\ UNCHANGED adding
               ELSE /\ cart_response' =
                         CartRequest("add", u, u, p, q, "pending")
                    /\ adding' = [adding EXCEPT ![h] =
                         [at |-> "commit", user |-> u, product |-> p,
                          quantity |-> q, row |-> cart_item.id,
                          new_quantity |-> new_quantity]]
       ELSE /\ cart_response' = CartRequest("add", u, u, p, q, "pending")
            /\ adding' = [adding EXCEPT ![h] =
                 [at |-> "commit", user |-> u, product |-> p,
                  quantity |-> q, row |-> 0, new_quantity |-> q]]
    /\ UNCHANGED <<cart_rows, next_cart_id>>
    /\ UNCHANGED <<shopVars, pricingVars, statusVars, accountVars,
                   numberVars, snapshotVars>>

\* The rest of add_to_cart(): db.session.commit().  The INSERT of a new
\* row fails on unique_cart_item when the table has a row of the (user,
\* product) by now; the UPDATE of the loaded row writes the quantity the
\* handler computed, and fails when the row has been deleted.
CartAddCommit(h) ==
    LET a == adding[h]
        found == {row \in cart_rows : row.id = a.row}
    IN /\ a.at = "commit"
       /\ adding' = [adding EXCEPT ![h] = NoAdd]
       /\ IF a.row = 0
          THEN IF CartRowsOf(a.user, a.product) # {}
               THEN /\ cart_response' =
                         CartRequest("add", a.user, a.user, a.product,
                                     a.quantity, "error")
                    /\ UNCHANGED <<cart_rows, next_cart_id>>
               ELSE /\ cart_rows' = cart_rows \cup
                         {[id |-> next_cart_id, user_id |-> a.user,
                           product_id |-> a.product,
                           quantity |-> a.quantity]}
                    /\ next_cart_id' = next_cart_id + 1
                    /\ cart_response' =
                         CartRequest("add", a.user, a.user, a.product,
                                     a.quantity, "ok")
          ELSE IF found = {}
               THEN /\ cart_response' =
                         CartRequest("add", a.user, a.user, a.product,
                                     a.quantity, "error")
                    /\ UNCHANGED <<cart_rows, next_cart_id>>
               ELSE /\ cart_rows' =
                         {IF row.id = a.row
                          THEN [row EXCEPT !.quantity = a.new_quantity]
                          ELSE row : row \in cart_rows}
                    /\ cart_response' =
                         CartRequest("add", a.user, a.user, a.product,
                                     a.quantity, "ok")
                    /\ UNCHANGED next_cart_id
       /\ UNCHANGED cart_calls
       /\ UNCHANGED <<shopVars, pricingVars, statusVars, accountVars,
                      numberVars, snapshotVars>>

\* update_cart(item_id) by user u on the cart row cart_item with form
\* quantity q.
CartUpdate(u, cart_item, q) ==
    /\ cart_calls < MaxCartRequests
    /\ cart_calls' = cart_calls + 1
    /\ cart_item \in cart_rows
    /\ IF \/ ~OwnsCartItem(u, cart_item)
          \/ q = 0 \/ q < 1
          \/ stock_quantity[cart_item.product_id] < q
       THEN /\ cart_response' =
                 CartRequest("update", u, cart_item.user_id,
                             cart_item.product_id, q, "rejected")
            /\ UNCHANGED cart_rows
       ELSE /\ cart_response' =
                 CartRequest("update", u, cart_item.user_id,
                             cart_item.product_id, q, "ok")
            /\ cart_rows' = (cart_rows \ {cart_item}) \cup
                 {[cart_item EXCEPT !.quantity = q]}
    /\ UNCHANGED <<next_cart_id, adding>>
    /\ UNCHANGED <<shopVars, pricingVars, statusVars, accountVars,
                   numberVars, snapshotVars>>

\* remove_from_cart(item_id) by user u on the cart row cart_item.
CartRemove(u, cart_item) ==
    /\ cart_calls < MaxCartRequests
    /\ cart_calls' = cart_calls + 1
    /\ cart_item \in cart_rows
    /\ IF ~OwnsCartItem(u, cart_item)
       THEN /\ cart_response' =
                 CartRequest("remove", u, cart_item.user_id,
                             cart_item.product_id, 0, "rejected")
            /\ UNCHANGED cart_rows
       ELSE /\ cart_response' =
                 CartRequest("remove", u, cart_item.user_id,
                             cart_item.product_id, 0, "ok")
            /\ cart_rows' = cart_rows \ {cart_item}
    /\ UNCHANGED <<next_cart_id, adding>>
    /\ UNCHANGED <<shopVars, pricingVars, statusVars, accountVars,
                   numberVars, snapshotVars>>

\* --------------------------------------------------------------- addresses
\* Number of address requests the application receives in a run.
MaxAddressRequests == 3

\* An address request: the route, the user who sent it, the id of the
\* address it is for (of the new address, for an add), how it ended, and
\* the number of rows its bulk update of is_default changed.
AddressRequest(route, u, id, result, cleared) ==
    [route |-> route, user |-> u, address |-> id, result |-> result,
     cleared |-> cleared]

\* No address rows, no address request.
AccountIdle ==
    /\ address_rows = {}
    /\ next_address_id = 1
    /\ address_response = AddressRequest("none", "none", 0, "none", 0)
    /\ address_calls = 0

\* Mutation of OtherDefaults: the bulk update finds no row.
NoOtherDefaults(u, address_id) == {}

\* Address.query.filter_by(user_id=u, is_default=True)
\* .filter(Address.id != address_id): the rows the bulk update of
\* is_default changes (address_id 0: no row is excluded).
OtherDefaults(u, address_id) ==
    {row \in address_rows :
        row.user_id = u /\ row.is_default /\ row.id # address_id}

\* The addresses table after the bulk update "is_default = False" on rows.
ClearDefaults(rows) ==
    {IF row \in rows THEN [row EXCEPT !.is_default = FALSE] ELSE row :
       row \in address_rows}

\* A request reaches an address route.
ServeAddress ==
    /\ address_calls < MaxAddressRequests
    /\ address_calls' = address_calls + 1

\* add_address() of the profile (route "profile") and add_address() of the
\* checkout (route "checkout") by user u, with the form's is_default and
\* whether the form validates.
AddAddress(route, u, is_default, valid) ==
    /\ ServeAddress
    /\ IF ~valid
       THEN /\ address_response' = AddressRequest(route, u, 0, "invalid", 0)
            /\ UNCHANGED <<address_rows, next_address_id>>
       ELSE LET cleared == IF is_default THEN OtherDefaults(u, 0) ELSE {}
            IN /\ address_rows' = ClearDefaults(cleared) \cup
                    {[id |-> next_address_id, user_id |-> u,
                      is_default |-> is_default]}
               /\ next_address_id' = next_address_id + 1
               /\ address_response' =
                    AddressRequest(route, u, next_address_id, "ok",
                                   Cardinality(cleared))
    /\ UNCHANGED <<shopVars, pricingVars, statusVars, cartVars, numberVars,
                   snapshotVars>>

\* edit_address(address_id) by user u on the row address, with the form's
\* is_default and whether the form validates.
EditAddress(u, address, is_default, valid) ==
    /\ ServeAddress
    /\ address \in address_rows
    /\ IF address.user_id # u
       THEN /\ address_response' =
                 AddressRequest("edit", u, address.id, "unauthorized", 0)
            /\ UNCHANGED address_rows
       ELSE IF ~valid
       THEN /\ address_response' =
                 AddressRequest("edit", u, address.id, "invalid", 0)
            /\ UNCHANGED address_rows
       ELSE LET cleared == IF is_default THEN OtherDefaults(u, address.id)
                           ELSE {}
            IN /\ address_rows' =
                    (ClearDefaults(cleared) \ {address}) \cup
                      {[address EXCEPT !.is_default = is_default]}
               /\ address_response' =
                    AddressRequest("edit", u, address.id, "ok",
                                   Cardinality(cleared))
    /\ UNCHANGED next_address_id
    /\ UNCHANGED <<shopVars, pricingVars, statusVars, cartVars, numberVars,
                   snapshotVars>>

\* delete_address(address_id) by user u on the row address.
DeleteAddress(u, address) ==
    /\ ServeAddress
    /\ address \in address_rows
    /\ IF address.user_id # u
       THEN /\ address_response' =
                 AddressRequest("delete", u, address.id, "unauthorized", 0)
            /\ UNCHANGED address_rows
       ELSE /\ address_response' =
                 AddressRequest("delete", u, address.id, "ok", 0)
            /\ address_rows' = address_rows \ {address}
    /\ UNCHANGED next_address_id
    /\ UNCHANGED <<shopVars, pricingVars, statusVars, cartVars, numberVars,
                   snapshotVars>>

\* set_default_address(address_id) by user u on the row address.
SetDefaultAddress(u, address) ==
    /\ ServeAddress
    /\ address \in address_rows
    /\ IF address.user_id # u
       THEN /\ address_response' =
                 AddressRequest("set_default", u, address.id,
                                "unauthorized", 0)
            /\ UNCHANGED address_rows
       ELSE LET cleared == OtherDefaults(u, address.id)
            IN /\ address_rows' =
                    (ClearDefaults(cleared) \ {address}) \cup
                      {[address EXCEPT !.is_default = TRUE]}
               /\ address_response' =
                    AddressRequest("set_default", u, address.id, "ok",
                                   Cardinality(cleared))
    /\ UNCHANGED next_address_id
    /\ UNCHANGED <<shopVars, pricingVars, statusVars, cartVars, numberVars,
                   snapshotVars>>

\* ------------------------------------------------------------ order numbers
\* Largest number of committed orders.
MaxOrders == 3

\* The values random.choices() gives for the six-character suffix.
RandomStrings == {"A1B2C3", "K4M5N6", "Z9Y8X7"}

\* Order.generate_order_number(): 'ASH-<timestamp>-<random_str>', with the
\* clock reading formatted to the second (fixed width) and the random
\* suffix; two numbers are equal exactly when both parts are.
GenerateOrderNumber(now, random_str) ==
    [prefix |-> "ASH", timestamp |-> now, random_str |-> random_str]

NoPlacement ==
    [order_number |-> GenerateOrderNumber(0, ""), result |-> "none"]

\* No committed order, no placement.
NumberIdle ==
    /\ order_numbers = <<>>
    /\ placement = NoPlacement

\* The committed orders that have order number n.
OrdersNumbered(n) ==
    {i \in 1..Len(order_numbers) : order_numbers[i] = n}

\* Order.order_number is unique: the INSERT of an order whose number a
\* committed order has raises IntegrityError.
NumberTaken(n) == OrdersNumbered(n) # {}

\* checkout() of a cart that passes the checks, as far as the order number
\* goes: the number is generated once, the order header is inserted at
\* db.session.flush(); an IntegrityError is not caught, the request ends
\* as a 500 and the session is rolled back; otherwise the order is
\* committed.
PlaceNumberedOrder(random_str) ==
    LET n == GenerateOrderNumber(utcnow, random_str)
    IN /\ Len(order_numbers) < MaxOrders
       /\ IF NumberTaken(n)
          THEN /\ placement' = [order_number |-> n, result |-> "error"]
               /\ UNCHANGED order_numbers
          ELSE /\ placement' = [order_number |-> n, result |-> "ok"]
               /\ order_numbers' = Append(order_numbers, n)
       /\ UNCHANGED <<shopVars, pricingVars, statusVars, cartVars,
                      accountVars, snapshotVars>>

\* ---------------------------------------------- products and their orders
\* Number of customer and order requests the application receives in a
\* run.
MaxArchiveRequests == 4

\* ProductForm as the admin posts it in edit_product(): every field passes
\* its validators.
ProductForms ==
    {[name |-> "Oil filter XL", part_number |-> "OF-2", price |-> 1010,
      discount |-> 5, stock_quantity |-> 1, is_active |-> TRUE],
     [name |-> "Oil filter", part_number |-> "OF-1", price |-> 10000,
      discount |-> 10, stock_quantity |-> MaxStock, is_active |-> FALSE]}

\* The statuses the admin posts in this part of the model.
PostedStatuses == {"shipped", "cancelled", "bogus"}

\* The catalogue as it is first entered, no order.
SnapshotIdle ==
    /\ catalogue =
         [p \in Products |->
            IF p = "p1" THEN [name |-> "Oil filter", part_number |-> "OF-1"]
            ELSE [name |-> "Spark plug", part_number |-> "SP-1"]]
    /\ archive = {}
    /\ archive_calls = 0

\* A request of the customer or for an order reaches its route handler.
ServeArchive ==
    /\ archive_calls < MaxArchiveRequests
    /\ archive_calls' = archive_calls + 1

\* add_to_cart(product_id) by the customer with the form's default
\* quantity, 1.
ArchiveAddToCart(p) ==
    /\ ServeArchive
    /\ cart_items' =
         IF stock_quantity[p] < 1 THEN cart_items
         ELSE IF cart_items[p] # 0 /\ stock_quantity[p] < cart_items[p] + 1
         THEN cart_items
         ELSE [cart_items EXCEPT ![p] = @ + 1]
    /\ UNCHANGED <<price, discount, placed, quote, order_amounts,
                   item_amounts>>
    /\ UNCHANGED <<catalogue, archive>>
    /\ UNCHANGED <<shopVars, statusVars, cartVars, accountVars, numberVars>>

\* The order items checkout() makes of the cart rows ps: the product's
\* name, part number and discounted price are copied into the item.
OrderItems(ps) ==
    {[product_id |-> p,
      product_name |-> catalogue[p].name,
      part_number |-> catalogue[p].part_number,
      quantity |-> cart_items[p],
      unit_price |-> Stored(DiscountedPrice(price[p], discount[p]),
                            PriceUnits),
      total_price |-> Stored(DiscountedPrice(price[p], discount[p])
                               * cart_items[p], PriceUnits)] : p \in ps}

\* checkout() by the customer, whole: the checks on the cart, the order
\* with its amounts, the order items, decrease_stock, the cart deletes,
\* db.session.commit().
ArchiveCheckout ==
    LET ps == {p \in Products : cart_items[p] # 0}
        t == Totals(ps)
    IN /\ ServeArchive
       /\ IF CartIsEmpty(cart_items)
             \/ ~StockAvailable(cart_items, stock_quantity)
          THEN UNCHANGED <<archive, stock_quantity, cart_items>>
          ELSE /\ archive' = archive \cup
                    {[id |-> Cardinality(archive) + 1,
                      order_status |-> "pending",
                      tracking_number |-> "",
                      subtotal |-> Stored(t.subtotal, PriceUnits),
                      tax_amount |-> Stored(t.tax_amount, TaxUnits),
                      shipping_amount |->
                        Stored(t.shipping_amount, TaxUnits),
                      total_amount |-> Stored(t.total_amount, TaxUnits),
                      items |-> OrderItems(ps)]}
               /\ stock_quantity' =
                    [p \in Products |->
                       DecreaseStock(stock_quantity[p], cart_items[p])]
               /\ cart_items' = [p \in Products |-> 0]
       /\ UNCHANGED <<price, discount, placed, quote, order_amounts,
                      item_amounts>>
       /\ UNCHANGED catalogue
       /\ UNCHANGED <<is_active, cart, orders, order_items, status_history,
                      next_order_id, pc, sess, outcome, stock_edited,
                      served, mails>>
       /\ UNCHANGED <<statusVars, cartVars, accountVars, numberVars>>

\* Mutation of EditProductDetails: the order items show the product as it
\* is now, not as it was bought.
EditProductDetailsShows(p, form) ==
    /\ catalogue' = [catalogue EXCEPT ![p] =
                       [name |-> form.name,
                        part_number |-> form.part_number]]
    /\ price' = [price EXCEPT ![p] = form.price]
    /\ discount' = [discount EXCEPT ![p] = form.discount]
    /\ stock_quantity' = [stock_quantity EXCEPT ![p] = form.stock_quantity]
    /\ is_active' = [is_active EXCEPT ![p] = form.is_active]
    /\ stock_edited' = [stock_edited EXCEPT ![p] = TRUE]
    /\ archive' =
         {[o EXCEPT !.items =
             {IF i.product_id = p
              THEN [i EXCEPT !.product_name = form.name,
                             !.unit_price = form.price]
              ELSE i : i \in o.items}] : o \in archive}
    /\ UNCHANGED <<cart_items, placed, quote, order_amounts, item_amounts>>
    /\ UNCHANGED archive_calls
    /\ UNCHANGED <<cart, orders, order_items, status_history,
                   next_order_id, pc, sess, outcome, served, mails>>
    /\ UNCHANGED <<statusVars, cartVars, accountVars, numberVars>>

\* edit_product(product_id) with a valid form: the product's name, part
\* number, price, discount, stock quantity and active flag are set and
\* committed.  products.part_number is unique: the commit fails, and
\* nothing changes, when another product has the part number.
EditProductDetails(p, form) ==
    /\ IF \E other \in Products \ {p} :
            catalogue[other].part_number = form.part_number
       THEN UNCHANGED <<catalogue, price, discount, stock_quantity,
                        is_active, stock_edited>>
       ELSE /\ catalogue' = [catalogue EXCEPT ![p] =
                               [name |-> form.name,
                                part_number |-> form.part_number]]
            /\ price' = [price EXCEPT ![p] = form.price]
            /\ discount' = [discount EXCEPT ![p] = form.discount]
            /\ stock_quantity' =
                 [stock_quantity EXCEPT ![p] = form.stock_quantity]
            /\ is_active' = [is_active EXCEPT ![p] = form.is_active]
            /\ stock_edited' = [stock_edited EXCEPT ![p] = TRUE]
    /\ UNCHANGED <<cart_items, placed, quote, order_amounts, item_amounts>>
    /\ UNCHANGED <<archive, archive_calls>>
    /\ UNCHANGED <<cart, orders, order_items, status_history,
                   next_order_id, pc, sess, outcome, served, mails>>
    /\ UNCHANGED <<statusVars, cartVars, accountVars, numberVars>>

\* delete_product(product_id): soft delete.
DeactivateProduct(p) ==
    /\ is_active' = [is_active EXCEPT ![p] = FALSE]
    /\ UNCHANGED <<stock_quantity, cart, orders, order_items,
                   status_history, next_order_id, pc, sess, outcome,
                   stock_edited, served, mails>>
    /\ UNCHANGED <<pricingVars, statusVars, siteVars>>

\* update_order_status(order_id) on the order o with form status s and
\* tracking number t, whole.
ArchiveUpdateStatus(o, s, t) ==
    /\ ServeArchive
    /\ o \in archive
    /\ archive' =
         IF ~StatusKnown(s) THEN archive
         ELSE (archive \ {o}) \cup
                {[o EXCEPT !.order_status = s,
                           !.tracking_number = IF t # "" THEN t ELSE @]}
    /\ UNCHANGED catalogue
    /\ UNCHANGED <<shopVars, pricingVars, statusVars, cartVars,
                   accountVars, numberVars>>

\* Nothing outside the shop, the pricing and the status updates.
SiteIdle == CartIdle /\ AccountIdle /\ NumberIdle /\ SnapshotIdle

\* ---------------------------------------------------- the specifications
\* Pricing of one placement.
\* A user's cart (at least one row) over a catalogue of priced products.
PricingInit ==
    /\ ShopInit
    /\ StatusIdle
    /\ SiteIdle
    /\ price \in [Products -> Prices]
    /\ discount \in [Products -> Discounts]
    /\ cart_items \in [Products -> 0..MaxStock]
    /\ \E p \in Products : cart_items[p] # 0
    /\ placed = FALSE
    /\ quote = NoAmounts
    /\ order_amounts = NoAmounts
    /\ item_amounts = NoItemAmounts

PricingNext == PlaceOrderAmounts

PricingSpec == PricingInit /\ [][PricingNext]_vars

\* Status updates of placed orders.
StatusInit == ShopInit /\ PricingIdle /\ StatusIdle /\ SiteIdle

StatusNext ==
    \/ \E h \in Requests, o \in UpdatedOrders,
          s \in OrderStatuses \cup {"bogus"}, f \in FormFields :
          StatusBegin(h, o, s, f.notes, f.tracking_number)
    \/ \E h \in Requests, transport_ok \in BOOLEAN :
          \E outcomes \in
                [subscriptions[OrderUser(update[h].order)] -> PushOutcomes] :
             StatusCommit(h, transport_ok, outcomes)
    \/ Tick

StatusSpec == StatusInit /\ [][StatusNext]_vars

\* Push subscriptions and the fan-out of a notification.
PushInit == ShopInit /\ PricingIdle /\ StatusIdle /\ SiteIdle

PushNext ==
    \/ \E u \in Users, e \in Endpoints : Subscribe(u, e)
    \/ \E u \in Users, e \in Endpoints : Unsubscribe(u, e)
    \/ \E u \in Users :
          \E outcomes \in [subscriptions[u] -> PushOutcomes] :
             SendNotification(u, outcomes)

PushSpec == PushInit /\ [][PushNext]_vars

\* The cart routes, request by request.
CartInit ==
    /\ ShopInit /\ PricingIdle /\ StatusIdle
    /\ CartIdle /\ AccountIdle /\ NumberIdle /\ SnapshotIdle

CartNext ==
    \/ \E h \in Requests, u \in Users, p \in Products,
          q \in 0..(MaxStock + 1) : CartAddBegin(h, u, p, q)
    \/ \E h \in Requests : CartAddCommit(h)
    \/ \E u \in Users, cart_item \in cart_rows, q \in 0..(MaxStock + 1) :
          CartUpdate(u, cart_item, q)
    \/ \E u \in Users, cart_item \in cart_rows : CartRemove(u, cart_item)

CartSpec == CartInit /\ [][CartNext]_vars

\* The address routes.
AddressInit ==
    /\ ShopInit /\ PricingIdle /\ StatusIdle
    /\ CartIdle /\ AccountIdle /\ NumberIdle /\ SnapshotIdle

AddressNext ==
    \/ \E route \in {"profile", "checkout"}, u \in Users,
          is_default \in BOOLEAN, valid \in BOOLEAN :
          AddAddress(route, u, is_default, valid)
    \/ \E u \in Users, address \in address_rows, is_default \in BOOLEAN,
          valid \in BOOLEAN : EditAddress(u, address, is_default, valid)
    \/ \E u \in Users, address \in address_rows : DeleteAddress(u, address)
    \/ \E u \in Users, address \in address_rows :
          SetDefaultAddress(u, address)

AddressSpec == AddressInit /\ [][AddressNext]_vars

\* The order numbers of the placements.
NumberInit ==
    /\ ShopInit /\ PricingIdle /\ StatusIdle
    /\ CartIdle /\ AccountIdle /\ NumberIdle /\ SnapshotIdle

NumberNext ==
    \/ \E random_str \in RandomStrings : PlaceNumberedOrder(random_str)
    \/ Tick

NumberSpec == NumberInit /\ [][NumberNext]_vars

\* The products and the orders kept of them.
SnapshotInit ==
    /\ ShopInit /\ PricingIdle /\ StatusIdle
    /\ CartIdle /\ AccountIdle /\ NumberIdle /\ SnapshotIdle

SnapshotNext ==
    \/ \E p \in Products : ArchiveAddToCart(p)
    \/ ArchiveCheckout
    \/ \E p \in Products, form \in ProductForms : EditProductDetails(p, form)
    \/ \E p \in Products : DeactivateProduct(p)
    \/ \E o \in archive, s \in PostedStatuses, f \in FormFields :
          ArchiveUpdateStatus(o, s, f.tracking_number)

SnapshotSpec == SnapshotInit /\ [][SnapshotNext]_vars

\* The customers' placements: the shop with the requests that fill a cart
\* and place an order, and no other request.
PlacementInit == ShopInit /\ PricingIdle /\ StatusIdle /\ SiteIdle

PlacementNext ==
    \/ \E u \in Users, p \in Products, q \in 0..MaxStock : AddToCart(u, p, q)
    \/ \E r \in Requests, u \in Users, a \in Addresses \cup {NoAddress} :
          CheckoutBegin(r, u, a)
    \/ \E r \in Requests, customer_ok \in BOOLEAN, admin_ok \in BOOLEAN :
          CheckoutCommit(r, customer_ok, admin_ok)
    \/ \E r \in Requests : CheckoutFail(r)

PlacementSpec == PlacementInit /\ [][PlacementNext]_vars

\* The shop.
Init == ShopInit /\ PricingIdle /\ StatusIdle /\ SiteIdle

Next ==
    \/ \E u \in Users, p \in Products, q \in 0..MaxStock : AddToCart(u, p, q)
    \/ \E u \in Users, o \in Users, p \in Products, q \in 0..MaxStock :
          UpdateCart(u, o, p, q)
    \/ \E u \in Users, o \in Users, p \in Products : RemoveFromCart(u, o, p)
    \/ \E r \in Requests, u \in Users, a \in Addresses \cup {NoAddress} :
          CheckoutBegin(r, u, a)
    \/ \E r \in Requests, customer_ok \in BOOLEAN, admin_ok \in BOOLEAN :
          CheckoutCommit(r, customer_ok, admin_ok)
    \/ \E r \in Requests : CheckoutFail(r)
    \/ \E p \in Products, n \in (-1)..MaxStock, act \in BOOLEAN :
          EditProduct(p, n, act)
    \/ \E p \in Products : DeleteProduct(p)
    \/ \E o \in orders, s \in OrderStatuses \cup {"bogus"} :
          UpdateOrderStatus(o, s)

Spec == Init /\ [][Next]_vars

\* ====================================================================
\* Properties
\* ====================================================================
RECURSIVE SumQuantity(_)
SumQuantity(items) ==
    IF items = {} THEN 0
    ELSE LET i == CHOOSE x \in items : TRUE
         IN i.quantity + SumQuantity(items \ {i})

ItemsOfProduct(p) == {i \in order_items : i.product_id = p}
ItemsOfOrder(id) == {i \in order_items : i.order_id = id}
OrderIds == {o.id : o \in orders}
OrderOwner(id) == (CHOOSE o \in orders : o.id = id).user_id
HistoryOf(id) ==
    SelectSeq(status_history, LAMBDA h : h.order_id = id)

\* The step in which handler r commits its placement.
Commits(r) == pc[r] = "flushed" /\ pc'[r] = "idle" /\ outcome' = "ok"
\* The step in which handler r's placement is rolled back.
RollsBack(r) == pc[r] = "flushed" /\ pc'[r] = "idle" /\ outcome' = "error"
\* Nothing of the committed order, cart and stock tables changes.
TablesUnchanged ==
    UNCHANGED <<stock_quantity, cart, orders, order_items, status_history>>
\* The checkout request ends where it is: no handler holds a transaction
\* for it.
NoPlacementStarted == UNCHANGED <<pc, sess, next_order_id>>

\* C1: with one unit of a product in stock (and no admin stock edit),
\* checkouts of different users cannot both commit an order for it, the
\* stock is never negative and is 0 once an order for it is committed.
C1_OneUnitOneCheckout ==
    \A p \in Products :
        (InitialStock(p) = 1 /\ ~stock_edited[p]) =>
            /\ stock_quantity[p] >= 0
            /\ ItemsOfProduct(p) # {} => stock_quantity[p] = 0
            /\ \A i, j \in ItemsOfProduct(p) :
                  OrderOwner(i.order_id) = OrderOwner(j.order_id)

\* C2: no stock decrement is lost: without admin stock edits, the initial
\* stock of a product is its current stock plus the quantities of all its
\* committed order items.
C2_NoLostDecrement ==
    \A p \in Products :
        ~stock_edited[p] =>
            InitialStock(p) = stock_quantity[p] + SumQuantity(ItemsOfProduct(p))

\* C3: every product's stock_quantity is a non-negative integer in every
\* reachable state.
C3_StockNeverNegative ==
    \A p \in Products : stock_quantity[p] \in Nat

\* C3 witness: checkouts have sold a product out and the admin has edited
\* the stock of a product.
C3_Witness ==
    /\ \E p \in Products : stock_quantity[p] = 0 /\ ItemsOfProduct(p) # {}
    /\ \E p \in Products : stock_edited[p]

\* C4, the rows of a committed state: every order has its items and its
\* initial pending history row, no item or history row is without its
\* order, and nothing of a placement that is not committed is visible.
C4_Rows ==
    /\ \A id \in OrderIds :
          /\ ItemsOfOrder(id) # {}
          /\ HistoryOf(id) # <<>>
          /\ HistoryOf(id)[1].status = "pending"
    /\ \A i \in order_items : i.order_id \in OrderIds
    /\ \A k \in 1..Len(status_history) :
          status_history[k].order_id \in OrderIds
    /\ \A r \in Requests :
          pc[r] = "flushed" => sess[r].order_id \notin OrderIds

\* C4, the steps: the commit of a placement adds the order, one item per
\* loaded cart row and the initial history row, deletes the loaded cart
\* rows and writes the decremented stock, all in one step; a rollback
\* changes no table.
C4_Step ==
    \A r \in Requests :
        /\ Commits(r) =>
              /\ orders' = orders \cup {OrderRow(r)}
              /\ order_items' \ order_items =
                    {[order_id |-> sess[r].order_id, product_id |-> p,
                      quantity |-> sess[r].lines[p]] : p \in LinesOf(r)}
              /\ LinesOf(r) # {}
              /\ status_history' =
                    Append(status_history,
                           [order_id |-> sess[r].order_id,
                            status |-> "pending"])
              /\ \A p \in LinesOf(r) :
                    /\ ~sess[r].gone[p] => cart'[sess[r].user][p] = 0
                    /\ stock_quantity'[p] = sess[r].stock[p] - sess[r].lines[p]
        /\ RollsBack(r) => TablesUnchanged
        /\ (orders' # orders /\ OrderIds' # OrderIds) =>
              \E h \in Requests : Commits(h)

\* C4: order placement is all-or-nothing.
C4_AllOrNothing == [](C4_Rows) /\ [][C4_Step]_vars

\* C4 witness: one placement is committed with two items and another one
\* has been rolled back.
C4_Witness ==
    /\ outcome = "error"
    /\ \E id \in OrderIds : Cardinality(ItemsOfOrder(id)) = 2

\* C5: a successful checkout (of a cart that is still as the checkout
\* loaded it, with no admin stock edit) leaves the user's cart empty,
\* lowers the stock of each product of a cart line by exactly the line's
\* quantity and changes no other stock.
C5_ExactDecrement ==
    [][\A r \in Requests :
          ( /\ Commits(r)
            /\ cart[sess[r].user] = sess[r].lines
            /\ \A p \in Products : ~sess[r].gone[p] /\ ~stock_edited[p] ) =>
              /\ \A p \in Products : cart'[sess[r].user][p] = 0
              /\ \A p \in Products :
                    stock_quantity'[p] =
                        stock_quantity[p] - sess[r].lines[p]]_vars

\* C6: when a placement reaches its commit while the stock of a product,
\* depleted by another checkout, is lower than the line quantity, it
\* commits no order, item or history row and deletes no cart line.
C6_StockConflictAborts ==
    [][\A r \in Requests :
          ( /\ pc[r] = "flushed" /\ pc'[r] = "idle"
            /\ \E p \in LinesOf(r) :
                  /\ ~stock_edited[p] /\ ~sess[r].gone[p]
                  /\ stock_quantity[p] < sess[r].lines[p] )
          => UNCHANGED <<cart, orders, order_items, status_history>>]_vars

\* C7: a checkout in which a cart line's quantity exceeds the product's
\* stock fails: no placement starts, no order is created, cart and stock
\* stay as they are.
C7_InsufficientStockRejected ==
    [][\A r \in Requests, u \in Users, a \in Addresses \cup {NoAddress} :
          ( /\ \E p \in Products :
                  cart[u][p] # 0 /\ cart[u][p] > stock_quantity[p]
            /\ CheckoutBegin(r, u, a) )
          => /\ outcome' = "insufficient_stock"
             /\ NoPlacementStarted
             /\ TablesUnchanged]_vars

\* C7 witness: a checkout with a line for a sold-out product was rejected.
C7_Witness ==
    /\ outcome = "insufficient_stock"
    /\ \E u \in Users, p \in Products :
          cart[u][p] # 0 /\ stock_quantity[p] = 0

\* C8: a checkout of an empty cart fails before any mutation.
C8_EmptyCartRejected ==
    [][\A r \in Requests, u \in Users, a \in Addresses \cup {NoAddress} :
          ( /\ \A p \in Products : cart[u][p] = 0
            /\ CheckoutBegin(r, u, a) )
          => /\ outcome' = "empty_cart"
             /\ NoPlacementStarted
             /\ TablesUnchanged]_vars

\* C8 witness: an empty-cart checkout was rejected while orders exist.
C8_Witness == outcome = "empty_cart" /\ orders # {}

\* C9: a checkout whose cart holds a line for an inactive product fails
\* before any mutation.
C9_InactiveProductRejected ==
    [][\A r \in Requests, u \in Users, a \in Addresses \cup {NoAddress} :
          ( /\ \E p \in Products : cart[u][p] # 0 /\ ~is_active[p]
            /\ CheckoutBegin(r, u, a) )
          => /\ NoPlacementStarted
             /\ TablesUnchanged]_vars

\* C10, the step: a checkout naming an address that does not exist or is
\* another user's starts no placement and changes no table.
C10_Step ==
    \A r \in Requests, u \in Users, a \in Addresses \cup {NoAddress} :
        ( /\ ~(a \in Addresses /\ AddressOwner(a) = u)
          /\ CheckoutBegin(r, u, a) )
        => /\ outcome' \in {"empty_cart", "insufficient_stock",
                            "invalid_address"}
           /\ NoPlacementStarted
           /\ TablesUnchanged

\* C10: a checkout with an invalid address fails, and every committed
\* order's address belongs to the order's user.
C10_InvalidAddressRejected ==
    /\ [][C10_Step]_vars
    /\ [](\A o \in orders :
             o.address_id \in Addresses /\ AddressOwner(o.address_id) = o.user_id)

\* C10 witness: a checkout with a stocked, non-empty cart was rejected for
\* its address while another order is committed.
C10_Witness == outcome = "invalid_address" /\ orders # {}

\* --------------------------------------------------------------- pricing
RECURSIVE SumOfItemTotals(_)
SumOfItemTotals(ps) ==
    IF ps = {} THEN 0
    ELSE LET p == CHOOSE x \in ps : TRUE
         IN item_amounts[p].total_price + SumOfItemTotals(ps \ {p})

\* The subtotal as the pricing contract states it, in PriceUnits:
\* the sum over the lines of price * (1 - discount / 100) * quantity.
RECURSIVE ContractSubtotal(_)
ContractSubtotal(ps) ==
    IF ps = {} THEN 0
    ELSE LET p == CHOOSE x \in ps : TRUE
         IN (price[p] * (100 - discount[p]) * cart_items[p] * PriceUnits)
               \div 100
              + ContractSubtotal(ps \ {p})

\* C11: for a committed order, at the stored precision of two decimal
\* places, the order items' total_price sum to the order's subtotal and
\* total_amount is subtotal + tax_amount + shipping_amount.
C11_StoredAmountsAddUp ==
    placed =>
        /\ SumOfItemTotals(Products) = order_amounts.subtotal
        /\ order_amounts.total_amount =
              order_amounts.subtotal + order_amounts.tax_amount
                + order_amounts.shipping_amount

\* C12: the totals checkout computes are subtotal = sum of discounted
\* price times quantity, tax = subtotal times the tax rate, shipping = the
\* flat rate, total = their sum; one line of price 100, discount 10%,
\* quantity 2 gives 180.00, 32.40, 50.00 and 262.40.
C12_TotalsAsSpecified ==
    placed =>
        /\ quote.subtotal = ContractSubtotal(Products)
        \* tax = subtotal * rate / 100, a cent being TaxUnits =
        \* 100 * PriceUnits units of the tax and PriceUnits of the subtotal
        /\ quote.tax_amount = quote.subtotal * TaxRatePercent
        /\ quote.shipping_amount = ShippingRateCents * TaxUnits
        /\ quote.total_amount =
              quote.subtotal * (TaxUnits \div PriceUnits)
                + quote.tax_amount + quote.shipping_amount
        /\ ( /\ price["p1"] = 10000 /\ discount["p1"] = 10
             /\ cart_items["p1"] = 2 /\ cart_items["p2"] = 0 ) =>
              /\ quote.subtotal = 18000 * PriceUnits
              /\ quote.tax_amount = 3240 * TaxUnits
              /\ quote.shipping_amount = 5000 * TaxUnits
              /\ quote.total_amount = 26240 * TaxUnits

\* C12 witness: the totals of the one-line cart of price 100, discount
\* 10%, quantity 2 have been computed.
C12_Witness ==
    /\ placed
    /\ price["p1"] = 10000 /\ discount["p1"] = 10
    /\ cart_items["p1"] = 2 /\ cart_items["p2"] = 0
    /\ quote.total_amount # 0

\* ---------------------------------------------------------- order status
\* The step in which handler h's status update commits and responds.
Finishes(h) == update[h].at = "commit" /\ update'[h].at = "idle"
\* The history row the step has appended.
NewRow == history_rows'[Len(history_rows')]
\* The step appends exactly one history row and keeps all the others.
OneRowAppended ==
    /\ Len(history_rows') = Len(history_rows) + 1
    /\ SubSeq(history_rows', 1, Len(history_rows)) = history_rows

\* C13: a status update with one of the six statuses sets the order's
\* order_status to it, appends exactly one history entry with that status
\* and the given notes, and changes no other order's status or history.
C13_ValidUpdateApplied ==
    [][\A h \in Requests :
          Finishes(h) =>
             /\ order_status'[update[h].order] = update[h].status
             /\ OneRowAppended
             /\ NewRow.order_id = update[h].order
             /\ NewRow.status = update[h].status
             /\ NewRow.notes = update[h].notes
             /\ \A o \in PlacedOrders \ {update[h].order} :
                   order_status'[o] = order_status[o]]_vars

\* C14: a status update whose status is not one of the six known values
\* fails, leaves order_status, tracking_number and the history unchanged
\* and attempts no email and no push notification.
C14_InvalidStatusRejected ==
    [][\A h \in Requests, o \in PlacedOrders, f \in FormFields :
          \A s \in {"bogus"} \ {"pending", "confirmed", "packed", "shipped",
                                "delivered", "cancelled"} :
             StatusBegin(h, o, s, f.notes, f.tracking_number) =>
                /\ response' = "invalid"
                /\ notifications' = {}
                /\ UNCHANGED <<order_status, tracking_number, history_rows,
                               update, subscriptions>>]_vars

\* C14 witness: an update with an unknown status was refused for an order
\* that has a tracking number and a history of two entries.
C14_Witness ==
    /\ response = "invalid"
    /\ \E o \in PlacedOrders :
          tracking_number[o] # "" /\ Len(RowsOfOrder(o)) = 2

\* C16: the timeline of an order lists its history entries in
\* non-decreasing timestamp order, which is the order in which the status
\* updates were called.
C16_TimelineInCallOrder ==
    \A o \in PlacedOrders :
        \A i, j \in 1..Len(StatusTimeline(o)) :
            i < j =>
               /\ StatusTimeline(o)[i].created_at
                     <= StatusTimeline(o)[j].created_at
               /\ StatusTimeline(o)[i].call < StatusTimeline(o)[j].call

\* C17: delivered and cancelled are terminal: no step changes the
\* order_status of an order that is delivered or cancelled.
C17_TerminalStatuses ==
    [][\A o \in PlacedOrders :
          order_status[o] \in {"delivered", "cancelled"} =>
             order_status'[o] = order_status[o]]_vars

\* C18: for every pair (current, new) of the six statuses the update is
\* accepted and succeeds: a request with one of the six statuses is never
\* refused, whatever the order's status, and an update of an order whose
\* status is the one the handler loaded ends with order_status = new, a
\* history entry for new and a success response.
C18_AnyTransitionAccepted ==
    [][\A h \in Requests :
          /\ \A o \in PlacedOrders, f \in FormFields :
                \A s \in {"pending", "confirmed", "packed", "shipped",
                          "delivered", "cancelled"} :
                   StatusBegin(h, o, s, f.notes, f.tracking_number) =>
                      /\ response' # "invalid"
                      /\ update'[h].at = "commit"
                      /\ update'[h].status = s
          /\ ( /\ Finishes(h)
               /\ update[h].loaded_status = order_status[update[h].order] )
             => /\ response' = "success"
                /\ order_status'[update[h].order] = update[h].status
                /\ OneRowAppended
                /\ NewRow.status = update[h].status]_vars

\* C18 witness: an order was moved backwards, from shipped to pending.
C18_Witness ==
    /\ response = "success"
    /\ \E o \in PlacedOrders :
          /\ order_status[o] = "pending"
          /\ Len(RowsOfOrder(o)) = 3
          /\ RowsOfOrder(o)[2].status = "shipped"
          /\ RowsOfOrder(o)[3].status = "pending"

\* C19: a failed status email or push notification never rolls back or
\* fails the status update: whatever the email and the push return, the
\* step that ends a valid update attempts both notifications, commits the
\* history entry (and the new order_status, when it differs from the
\* loaded one) and reports success.
C19_NotificationFailureHarmless ==
    [][\A h \in Requests :
          Finishes(h) =>
             /\ {n.kind : n \in notifications'} = {"email", "push"}
             /\ response' = "success"
             /\ OneRowAppended
             /\ NewRow.order_id = update[h].order
             /\ NewRow.status = update[h].status
             /\ update[h].status # update[h].loaded_status =>
                   order_status'[update[h].order] = update[h].status]_vars

\* C19 witness: an update to shipped of an order whose user has a push
\* subscription has succeeded although its email and its push
\* notification both failed.
C19_Witness ==
    /\ response = "success"
    /\ \A n \in notifications : ~n.ok
    /\ notifications # {}
    /\ \E o \in PlacedOrders :
          order_status[o] = "shipped" /\ subscriptions[OrderUser(o)] # {}

\* ------------------------------------------- history and order emails
\* C15: the status history is append-only: across checkouts, status
\* updates and product edits every step keeps all the entries there are,
\* in place and unchanged, so every order's history in a later state
\* starts with its history in the earlier state and never gets shorter.
C15_HistoryAppendOnly ==
    [][/\ Len(status_history') >= Len(status_history)
       /\ \A k \in 1..Len(status_history) :
             status_history'[k] = status_history[k]
       /\ \A id \in OrderIds :
             /\ Len(HistoryOf(id)') >= Len(HistoryOf(id))
             /\ SubSeq(HistoryOf(id)', 1, Len(HistoryOf(id))) = HistoryOf(id)
      ]_vars

\* C15 witness: an order's history has grown by a status update and the
\* admin has edited a product.
C15_Witness ==
    /\ \E id \in OrderIds : Len(HistoryOf(id)) >= 2
    /\ \E p \in Products : stock_edited[p]

\* C20, the steps: order emails are attempted only in the step that
\* commits a placement, and for that placement's order; whether they go
\* out or fail, that step has committed the order, its items, its history
\* entry, the deletion of the loaded cart rows and the stock it wrote.
C20_Step ==
    /\ mails' # {} =>
          \E r \in Requests :
             /\ Commits(r)
             /\ \A m \in mails' : m.order_id = sess[r].order_id
    /\ \A r \in Requests : RollsBack(r) => mails' = {}
    /\ \A r \in Requests :
          (Commits(r) /\ \E m \in mails' : ~m.ok) =>
             /\ OrderRow(r) \in orders'
             /\ \A p \in LinesOf(r) :
                   /\ [order_id |-> sess[r].order_id, product_id |-> p,
                       quantity |-> sess[r].lines[p]] \in order_items'
                   /\ ~sess[r].gone[p] => cart'[sess[r].user][p] = 0
                   /\ stock_quantity'[p] = sess[r].stock[p] - sess[r].lines[p]
             /\ status_history'[Len(status_history')].order_id
                   = sess[r].order_id

\* C20: order-placement notifications are sent only after the placement
\* has committed, none for a checkout that fails or rolls back, and a
\* failed notification leaves the committed placement as it is.
C20_NotifiedAfterCommit ==
    /\ [][C20_Step]_vars
    /\ [](mails # {} =>
             /\ outcome = "ok"
             /\ {m.kind : m \in mails} = {"confirmation", "admin"}
             /\ \A m \in mails :
                   /\ m.order_id \in OrderIds
                   /\ ItemsOfOrder(m.order_id) # {}
                   /\ HistoryOf(m.order_id) # <<>>)

\* C20 witness: a placement, not the first one that was started, is
\* committed although both of its emails failed.
C20_Witness ==
    /\ outcome = "ok"
    /\ mails # {}
    /\ \A m \in mails : ~m.ok
    /\ \E m \in mails : m.order_id > 1
\* ------------------------------------------------------------ push fan-out
\* The step is a fan-out of send_notification().
FansOut == response' \in {"sent", "not_sent"}
\* The pushes of the fan-out webpush() was called for.
Attempted == {n \in notifications' : n.sent}
\* The value the fan-out returns to its caller.
Returned == response' = "sent"

\* C21: after a push fan-out to a user, every subscription whose push was
\* refused with 410 is gone from the push_subscriptions table, whatever
\* happened to the user's other subscriptions, and the value returned is
\* the one the same pushes give when the 410 responses are plain failures.
C21_GonePurged ==
    [][FansOut =>
         /\ \A n \in Attempted :
               n.outcome = "gone" => n.endpoint \notin subscriptions'[n.user]
         /\ LET subs == {n.endpoint : n \in notifications'}
                plain == [e \in subs |->
                            LET o == (CHOOSE n \in notifications' :
                                         n.endpoint = e).outcome
                            IN IF o = "gone" THEN "failed" ELSE o]
            IN Returned <=> SendPushNotification(subs, plain).result
      ]_vars

\* C22: a push fan-out calls webpush() for every subscription of the user,
\* whatever happens to the others, and returns True exactly when at least
\* one subscription accepted the push.
C22_IndependentFanOut ==
    [][FansOut =>
         /\ \A n \in notifications' : n.sent
         /\ Returned <=> \E n \in notifications' : n.outcome = "accepted"
      ]_vars
\* ------------------------------------------------------------- cart rows
\* The step in which handler h's add_to_cart() commits and answers success.
AddSucceeds(h) ==
    /\ adding[h].at = "commit"
    /\ adding'[h].at = "idle"
    /\ cart_response'.result = "ok"

\* The cart table has at most one row per (user, product).
OneLinePerProduct ==
    \A r1 \in cart_rows, r2 \in cart_rows :
       (r1.user_id = r2.user_id /\ r1.product_id = r2.product_id) => r1 = r2

\* C23: the cart table never has two rows of one (user, product), and an
\* add that succeeds for a product the user's cart already has a row of
\* raises that row's quantity by the quantity added and makes no new row,
\* also when the handlers of two adds interleave.
C23_OneLinePerUserProduct ==
    /\ []OneLinePerProduct
    /\ [][\A h \in Requests :
             AddSucceeds(h) =>
                \A row \in CartRowsOf(adding[h].user, adding[h].product) :
                   cart_rows' =
                     (cart_rows \ {row}) \cup
                       {[row EXCEPT !.quantity = @ + adding[h].quantity]}
         ]_vars

\* The cart request of the step is one the routes must refuse: an update
\* or a remove by a user who does not own the row, an add or an update
\* with a quantity below 1 or above the product's stock.
MustBeRefused(c) ==
    \/ c.route \in {"update", "remove"} /\ c.user # c.owner
    \/ /\ c.route \in {"add", "update"}
       /\ c.quantity < 1 \/ c.quantity > stock_quantity[c.product]

\* C30: an update or a remove by a user who does not own the cart row, and
\* an add or an update with a quantity below 1 or above the product's
\* stock, is rejected and changes no cart row of any user.
C30_RefusedCartRequests ==
    [][(cart_calls' = cart_calls + 1 /\ MustBeRefused(cart_response'))
         => /\ cart_response'.result = "rejected"
            /\ UNCHANGED <<cart_rows, adding, next_cart_id>>
      ]_vars

\* A user's update of another user's cart row has been rejected and the
\* row is in the table.
C30_Witness ==
    /\ cart_response.route = "update"
    /\ cart_response.user # cart_response.owner
    /\ cart_response.quantity = 1
    /\ cart_response.result = "rejected"
    /\ CartRowsOf(cart_response.owner, cart_response.product) # {}
\* ------------------------------------------------------------- addresses
\* The default addresses of user u.
DefaultsOf(u) == {row \in address_rows : row.user_id = u /\ row.is_default}

\* C24: after any sequence of add-address (profile or checkout),
\* edit-address, set-default and delete-address requests every user has at
\* most one default address, and a request that makes an address the
\* default leaves no other address of the user default in the table it
\* commits.
C24_OneDefaultAddress ==
    /\ [](\A u \in Users : Cardinality(DefaultsOf(u)) <= 1)
    /\ [][\A new \in address_rows' :
             (new.is_default /\ new \notin address_rows)
                => \A row \in address_rows' :
                      (row.user_id = new.user_id /\ row.is_default)
                         => row = new
         ]_vars

\* A user with a default address has made another of their addresses the
\* default: the bulk update has cleared one row.
C24_Witness ==
    /\ address_response.route = "set_default"
    /\ address_response.result = "ok"
    /\ address_response.cleared = 1
    /\ Cardinality({row \in address_rows :
                       row.user_id = address_response.user}) = 2
    /\ \A row \in DefaultsOf(address_response.user) :
          row.id = address_response.address
\* ---------------------------------------------------------- order numbers
\* No two committed orders have the same order number.
OrderNumbersUnique ==
    \A i \in 1..Len(order_numbers), j \in 1..Len(order_numbers) :
       order_numbers[i] = order_numbers[j] => i = j

\* C25: the order numbers of the committed orders are unique, and a
\* placement whose generated number is that of a committed order still
\* completes: its order is committed, under a number no other order has.
C25_OrderNumberCollision ==
    /\ []OrderNumbersUnique
    /\ [][(placement' # placement \/ order_numbers' # order_numbers)
            => /\ placement'.result = "ok"
               /\ Len(order_numbers') = Len(order_numbers) + 1
         ]_vars
\* -------------------------------------------------------- order snapshots
\* What the order o keeps of the purchase.
Snapshot(o) ==
    [id |-> o.id, subtotal |-> o.subtotal, tax_amount |-> o.tax_amount,
     shipping_amount |-> o.shipping_amount, total_amount |-> o.total_amount,
     items |-> o.items]

\* C26: a committed order keeps its subtotal, tax_amount, shipping_amount
\* and total_amount and, of every order item, product_name, part_number,
\* quantity, unit_price and total_price, whatever follows: product edits
\* (name, part number, price, discount, stock), product deactivation, other
\* checkouts, status updates.
C26_OrderSnapshotKept ==
    [][\A o \in archive :
          \E kept \in archive' : Snapshot(kept) = Snapshot(o)]_vars

\* An order whose status has been updated holds an item of a product that
\* has since been edited and deactivated: the item's name, part number and
\* unit price are no longer the product's.
C26_Witness ==
    \E o \in archive :
       /\ o.order_status = "shipped"
       /\ \E i \in o.items :
             /\ i.product_name # catalogue[i.product_id].name
             /\ i.part_number # catalogue[i.product_id].part_number
             /\ i.unit_price #
                  Stored(DiscountedPrice(price[i.product_id],
                                         discount[i.product_id]), PriceUnits)
             /\ ~is_active[i.product_id]
\* ------------------------------------------------------- initial status
\* C27: the commit of a placement creates the order with order_status
\* pending and, in the same step, exactly one history row of the order,
\* with status pending; the first history row of every order is pending.
C27_CreatedPending ==
    /\ [](\A id \in OrderIds :
            /\ HistoryOf(id) # <<>>
            /\ HistoryOf(id)[1].status = "pending")
    /\ [][\A r \in Requests :
             Commits(r) =>
                /\ \E o \in orders' \ orders :
                      /\ o.id = sess[r].order_id
                      /\ o.order_status = "pending"
                      /\ orders' = orders \cup {o}
                /\ HistoryOf(sess[r].order_id) = <<>>
                /\ SelectSeq(status_history',
                             LAMBDA h : h.order_id = sess[r].order_id)
                     = <<[order_id |-> sess[r].order_id,
                          status |-> "pending"]>>
         ]_vars

\* A second order has just been committed, pending with its one history
\* row, after the first order's status was updated.
C27_Witness ==
    /\ outcome = "ok"
    /\ \E o \in orders :
          /\ o.order_status = "pending"
          /\ Len(HistoryOf(o.id)) = 1
          /\ \E first \in orders :
                /\ first.id < o.id
                /\ first.order_status = "shipped"
                /\ Len(HistoryOf(first.id)) = 2
\* ------------------------------------------------- status and its history
\* C28: in every committed state the order_status of each order is the
\* status of the latest row of its history, by id and in its timeline,
\* also when two updates of the order are processed at the same time.
C28_StatusIsLastEntry ==
    \A o \in PlacedOrders :
       /\ order_status[o] = RowsOfOrder(o)[Len(RowsOfOrder(o))].status
       /\ order_status[o] = StatusTimeline(o)[Len(StatusTimeline(o))].status
\* ---------------------------------------------------------- double submit
\* C29: a cart row becomes an order item at most once.  When no request
\* but placements takes rows out of the cart, a placement that commits
\* finds each cart row it loaded still in the cart (no other placement has
\* made an order of it), and the stock of a product is not lowered a
\* second time for a row another placement has already made an order of.
C29_OneOrderPerCartLine ==
    [][\A r \in Requests :
          Commits(r) =>
             /\ \A p \in LinesOf(r) : ~sess[r].gone[p]
             /\ \A p \in LinesOf(r) :
                   sess[r].gone[p] => stock_quantity'[p] >= stock_quantity[p]
      ]_vars
====
